---- MODULE Spec2Model ----
(***************************************************************************)
(* Model of ReplServer (src/src/ReplServer.cpp): the replicate() loop, the *)
(* outbound selection queueNewPlots, the inbound merge addReplDronePlots,  *)
(* and the reconciliation passes checkSkew, correctSkew and deduplicate.   *)
(***************************************************************************)
EXTENDS Integers, Sequences, FiniteSets, TLC

(***************************************************************************)
(* Bounds of the model.                                                    *)
(***************************************************************************)
MaxInit == 1        \* longest initial store drawn from the generic universe
MaxInbound == 1     \* inbound batches the transport delivers in one run
MaxCycles == 2      \* iterations of the replicate loop that are explored

(***************************************************************************)
(* Program constants.                                                      *)
(***************************************************************************)
secs_between_repl == 20
CountSize == 4      \* sizeof(unsigned int), width of the count prefix
DataSize == 32      \* DronePlot::getDataSize()

(***************************************************************************)
(* Data domains.                                                           *)
(***************************************************************************)
Nodes == {1, 2, 3}
Times == {50, 60}
NoFlags == {}
DBFLAG_NEW == "NEW"
DBFLAG_DUPE == "DUPE"
DBFLAG_LEADER == "LEADER"

\* A DronePlot object: the five data fields and its flag set.
Plot(d, n, t, la, lo, f) ==
  [drone_id |-> d, node_id |-> n, timestamp |-> t,
   latitude |-> la, longitude |-> lo, flags |-> f]

\* "ds" + std::to_string(node_id): the station name of a node.
StationName(n) == <<"ds", n>>

\* Priority orders the transport may report; station 3 is not known to it.
PriorityOrders == { <<StationName(1), StationName(2)>>,
                    <<StationName(2), StationName(1)>> }

(***************************************************************************)
(* Sequence helpers.                                                       *)
(***************************************************************************)
\* std::list::erase(position k)
EraseAt(s, k) == [x \in 1..(Len(s) - 1) |-> IF x < k THEN s[x] ELSE s[x + 1]]

\* DronePlot::setFlags on element k of the list
SetFlagAt(s, k, f) == [s EXCEPT ![k].flags = @ \cup {f}]

isFlagSet(p, f) == f \in p.flags


Min(S) == CHOOSE x \in S : \A y \in S : x <= y

\* an insertion that replaces the value of a key already present
EmplaceOverwrites(m, k, v) == [x \in DOMAIN m \cup {k} |-> IF x = k THEN v ELSE m[x]]

\* std::map::emplace: inserts only when the key is absent
Emplace(m, k, v) == IF k \in DOMAIN m THEN m ELSE m @@ (k :> v)

(***************************************************************************)
(* Reads through an iterator that stands at end().  The list node behind   *)
(* end() holds no DronePlot: a checked build traps, any other build reads  *)
(* whatever bytes lie there.  One read outcome is fixed for a whole call.  *)
(***************************************************************************)
GarbagePlots ==
  { Plot(0, 0, 0, 0, 0, NoFlags),
    Plot(0, 0, 0, 1, 2, {DBFLAG_LEADER}), Plot(0, 0, 50, 1, 2, {DBFLAG_LEADER}),
    Plot(0, 1, 0, 1, 2, NoFlags), Plot(0, 1, 50, 1, 2, NoFlags) }

EndReads ==
  { [trap |-> TRUE, plot |-> Plot(0, 0, 0, 0, 0, NoFlags)] }
  \cup { [trap |-> FALSE, plot |-> p] : p \in GarbagePlots }

(***************************************************************************)
(* checkSkew, lines 247-321.                                               *)
(***************************************************************************)
\* lines 271-286: the four-way choice of which skew entry to add
SkewStep(sk, I, J) ==
  IF I.node_id \in DOMAIN sk /\ J.node_id \notin DOMAIN sk
    THEN Emplace(sk, J.node_id, (sk[I.node_id] + I.timestamp) - J.timestamp)
  ELSE IF I.node_id \notin DOMAIN sk /\ J.node_id \in DOMAIN sk
    THEN Emplace(sk, I.node_id, (sk[J.node_id] + J.timestamp) - I.timestamp)
  ELSE IF isFlagSet(I, DBFLAG_LEADER)
    THEN Emplace(sk, J.node_id, I.timestamp - J.timestamp)
  ELSE IF isFlagSet(J, DBFLAG_LEADER)
    THEN Emplace(sk, I.node_id, J.timestamp - I.timestamp)
  ELSE sk

\* a scan that drops j when no entry names either station
PriorityScanDropsUnknown(po, ni, nj) ==
  LET hits == {k \in 1..Len(po) :
                 po[k] = StationName(ni) \/ po[k] = StationName(nj)}
  IN IF hits = {} THEN "erase_j"
     ELSE IF po[Min(hits)] = StationName(ni) THEN "erase_j" ELSE "erase_i"

\* lines 291-305 and 350-362: walk the priority order; the first entry that
\* names i's station erases j, the first that names j's station erases i.
PriorityScan(po, ni, nj) ==
  LET hits == {k \in 1..Len(po) :
                 po[k] = StationName(ni) \/ po[k] = StationName(nj)}
  IN IF hits = {} THEN "none"
     ELSE IF po[Min(hits)] = StationName(ni) THEN "erase_j" ELSE "erase_i"

\* lines 253-257 and 262-265: mark a plot of the front station
MarkLeader(db, po, k) ==
  IF Head(po) = StationName(db[k].node_id)
    THEN SetFlagAt(db, k, DBFLAG_LEADER) ELSE db

Outcome(st, db, sk) == [st |-> st, db |-> db, sk |-> sk]

\* lines 259-314: the inner loop.  i is fixed (one past the outer position,
\* Len(db)+1 meaning end()), j runs from the outer position to the last plot.
RECURSIVE checkSkewInner(_, _, _, _, _, _)
checkSkewInner(db, sk, po, g, i, j) ==
  IF j > Len(db) THEN Outcome("cont", db, sk)
  ELSE
    LET db1 == MarkLeader(db, po, j)
        atEnd == i > Len(db)
    IN IF atEnd /\ g.trap THEN Outcome("crash", db1, sk)
       ELSE
         LET I == IF atEnd THEN g.plot ELSE db1[i]
             J == db1[j]
         IN IF I.latitude = J.latitude /\ I.longitude = J.longitude
            THEN IF I.timestamp # J.timestamp
                 THEN checkSkewInner(db1, SkewStep(sk, I, J), po, g, i, j + 1)
                 ELSE LET d == PriorityScan(po, I.node_id, J.node_id)
                      IN IF d = "erase_j" THEN Outcome("false", EraseAt(db1, j), sk)
                         ELSE IF d = "erase_i"
                           THEN IF atEnd THEN Outcome("crash", db1, sk)
                                ELSE Outcome("false", EraseAt(db1, i), sk)
                         ELSE checkSkewInner(db1, sk, po, g, i, j + 1)
            ELSE checkSkewInner(db1, sk, po, g, i, j + 1)

\* lines 251-319: the outer loop from position i.  "j = i++" leaves j on the
\* outer plot and moves i one further; the loop's own i++ moves it again.
\* When i was the last plot the inner i is end(), and the loop's i++ on
\* end() follows the circular list back to begin(): outcome "wrap".
RECURSIVE checkSkewOuter(_, _, _, _, _)
checkSkewOuter(db, sk, po, g, i) ==
  IF i = Len(db) + 1 THEN Outcome("true", db, sk)
  ELSE
    LET r == checkSkewInner(MarkLeader(db, po, i), sk, po, g, i + 1, i)
    IN IF r.st # "cont" THEN r
       ELSE IF i + 1 = Len(db) + 1 THEN Outcome("wrap", r.db, r.sk)
       ELSE checkSkewOuter(r.db, r.sk, po, g, i + 2)

\* One call of checkSkew: "true"/"false" are its return values, "crash" an
\* abort inside it, "hang" a traversal that wraps for ever.  A wrapped
\* traversal repeats from begin() with the flags and skew it has added.
RECURSIVE checkSkew(_, _, _, _)
checkSkew(db, sk, po, g) ==
  LET r == checkSkewOuter(db, sk, po, g, 1)
  IN IF r.st # "wrap" THEN r
     ELSE IF r.db = db /\ r.sk = sk THEN Outcome("hang", db, sk)
     ELSE checkSkew(r.db, r.sk, po, g)

(***************************************************************************)
(* correctSkew, lines 323-336.                                             *)
(***************************************************************************)
correctSkew(db, sk) ==
  [k \in 1..Len(db) |->
     IF db[k].node_id \in DOMAIN sk
       THEN [db[k] EXCEPT !.timestamp = @ + sk[db[k].node_id]]
       ELSE db[k]]

(***************************************************************************)
(* deduplicate, lines 339-377.                                             *)
(***************************************************************************)
RECURSIVE deduplicateInner(_, _, _, _, _)
deduplicateInner(db, po, g, i, j) ==
  IF j > Len(db) THEN Outcome("cont", db, <<>>)
  ELSE
    LET atEnd == i > Len(db)
    IN IF atEnd /\ g.trap THEN Outcome("crash", db, <<>>)
       ELSE
         LET I == IF atEnd THEN g.plot ELSE db[i]
             J == db[j]
         IN IF I.timestamp = J.timestamp
            THEN LET d == PriorityScan(po, I.node_id, J.node_id)
                 IN IF d = "erase_j" THEN Outcome("false", EraseAt(db, j), <<>>)
                    ELSE IF d = "erase_i"
                      THEN IF atEnd THEN Outcome("crash", db, <<>>)
                           ELSE Outcome("false", EraseAt(db, i), <<>>)
                    ELSE deduplicateInner(db, po, g, i, j + 1)
            ELSE deduplicateInner(db, po, g, i, j + 1)

RECURSIVE deduplicateOuter(_, _, _, _)
deduplicateOuter(db, po, g, i) ==
  IF i = Len(db) + 1 THEN Outcome("true", db, <<>>)
  ELSE
    LET r == deduplicateInner(db, po, g, i + 1, i)
    IN IF r.st # "cont" THEN r
       ELSE IF i + 1 = Len(db) + 1 THEN Outcome("hang", db, <<>>)
       ELSE deduplicateOuter(db, po, g, i + 2)

deduplicate(db, po, g) == deduplicateOuter(db, po, g, 1)


(***************************************************************************)
(* PlotStore and wire format.                                              *)
(***************************************************************************)
\* DronePlotDB::sortByTime: stable ascending sort by timestamp
RECURSIVE InsertByTime(_, _)
InsertByTime(s, p) ==
  IF s = <<>> THEN <<p>>
  ELSE IF s[Len(s)].timestamp <= p.timestamp THEN Append(s, p)
  ELSE Append(InsertByTime(SubSeq(s, 1, Len(s) - 1), p), s[Len(s)])

RECURSIVE sortByTime(_)
sortByTime(db) ==
  IF db = <<>> THEN <<>>
  ELSE InsertByTime(sortByTime(SubSeq(db, 1, Len(db) - 1)), db[Len(db)])

\* DronePlot::serialize: one record of DataSize bytes carrying the five
\* data fields; the flags are not part of the record.
serialize(p) ==
  <<p.drone_id, p.node_id, p.timestamp, p.latitude, p.longitude>>

\* DronePlot::deserialize into a fresh DronePlot
deserialize(rec) == Plot(rec[1], rec[2], rec[3], rec[4], rec[5], NoFlags)

\* DronePlotDB::addPlot: appends a plot built from the five fields, marked NEW
addPlot(db, d, n, t, la, lo) == Append(db, Plot(d, n, t, la, lo, {DBFLAG_NEW}))

\* A std::vector<uint8_t> as the transport carries it: its size in bytes,
\* the value of its first CountSize bytes, and the whole records after them.
Data(size, count, recs) == [size |-> size, count |-> count, recs |-> recs]

(***************************************************************************)
(* queueNewPlots, lines 136-186.                                           *)
(***************************************************************************)
\* a marshalling that serializes every NEW plot, DUPE or not
RECURSIVE MarshallEveryNew(_)
MarshallEveryNew(db) ==
  IF db = <<>> THEN <<>>
  ELSE IF isFlagSet(Head(db), DBFLAG_NEW)
    THEN <<serialize(Head(db))>> \o MarshallEveryNew(Tail(db))
    ELSE MarshallEveryNew(Tail(db))

\* lines 145-161: the marshalled records, in store order
RECURSIVE Marshall(_)
Marshall(db) ==
  IF db = <<>> THEN <<>>
  ELSE LET p == Head(db)
       IN IF isFlagSet(p, DBFLAG_NEW) /\ ~isFlagSet(p, DBFLAG_DUPE)
            THEN <<serialize(p)>> \o Marshall(Tail(db))
            ELSE Marshall(Tail(db))

\* line 156: count is incremented for every plot that has NEW
CountNew(db) == Cardinality({k \in 1..Len(db) : isFlagSet(db[k], DBFLAG_NEW)})

\* line 154: clrFlags(DBFLAG_NEW) on every plot that has NEW
ClearNew(db) == [k \in 1..Len(db) |-> [db[k] EXCEPT !.flags = @ \ {DBFLAG_NEW}]]

\* the whole call: the store afterwards, the returned count, and the
\* batches handed to sendToAll (none when count is 0, lines 163-168)
queueNewPlots(db) ==
  LET recs == Marshall(db)
      count == CountNew(db)
  IN [db |-> ClearNew(db),
      count |-> count,
      sent |-> IF count = 0 THEN <<>>
               ELSE <<Data(CountSize + DataSize * Len(recs), count, recs)>>]

(***************************************************************************)
(* addReplDronePlots and addSingleDronePlot, lines 197-238.                *)
(***************************************************************************)
\* lines 214-219: records k..count.  A record past the end of the vector is
\* read from memory the vector does not own (trap or arbitrary bytes).
RECURSIVE AddRecords(_, _, _, _)
AddRecords(db, data, g, k) ==
  IF k > data.count THEN [st |-> "ok", db |-> db]
  ELSE IF k <= Len(data.recs)
    THEN LET t == deserialize(data.recs[k])
         IN AddRecords(addPlot(db, t.drone_id, t.node_id, t.timestamp,
                               t.latitude, t.longitude), data, g, k + 1)
  ELSE IF g.trap THEN [st |-> "crash", db |-> db]
  ELSE LET t == deserialize(serialize(g.plot))
       IN AddRecords(addPlot(db, t.drone_id, t.node_id, t.timestamp,
                             t.latitude, t.longitude), data, g, k + 1)

\* a merge that does not look at the size of the vector
addReplDronePlotsUnchecked(db, data, g) == AddRecords(db, data, g, 1)

addReplDronePlots(db, data, g) ==
  IF data.size < CountSize THEN [st |-> "throw", db |-> db]
  ELSE IF (data.size - CountSize) % DataSize # 0 THEN [st |-> "throw", db |-> db]
  ELSE AddRecords(db, data, g, 1)


(***************************************************************************)
(* Inputs: initial stores and inbound batches.                             *)
(***************************************************************************)
SeqsUpTo(S, n) == UNION {[1..k -> S] : k \in 0..n}

\* plots a caller-supplied DronePlotDB may hold when replicate() starts:
\* local sightings of station 1 and of the unlisted station 3 (plots of
\* station 2 arrive in batches and in ScenarioStores)
InitPlots ==
  { Plot(1, n, t, 1, 2, {DBFLAG_NEW}) : n \in {1, 3}, t \in Times }

\* two larger stores: sightings of one drone at two positions by stations
\* 1 and 3, and by stations 1, 2 and 3
ScenarioStores ==
  { << Plot(1, 1, 50, 1, 2, NoFlags), Plot(1, 3, 60, 1, 2, NoFlags),
       Plot(1, 1, 60, 1, 3, NoFlags), Plot(1, 3, 70, 1, 3, NoFlags) >>,
    << Plot(1, 1, 50, 1, 2, NoFlags), Plot(1, 2, 60, 1, 2, NoFlags),
       Plot(1, 2, 60, 1, 3, NoFlags), Plot(1, 3, 70, 1, 3, NoFlags) >> }

InitStores == SeqsUpTo(InitPlots, MaxInit) \cup ScenarioStores

WireRecs == { <<1, n, 50, 1, 2>> : n \in Nodes }

\* a batch as queueNewPlots of a peer frames it
Framed(recs) == Data(CountSize + DataSize * Len(recs), Len(recs), recs)

WellFormedBatches ==
  { Framed(rs) : rs \in SeqsUpTo(WireRecs, 1) }
  \cup { Framed(<< <<1, 3, 60, 1, 3>>, <<1, 2, 60, 1, 2>> >>) }

\* too short, ragged, count below and count above the records present
MalformedBatches ==
  { Data(CountSize - 1, 0, <<>>),
    Data(CountSize + DataSize + 1, 1, << <<1, 2, 50, 1, 2>> >>),
    Data(CountSize + DataSize, 0, << <<1, 2, 50, 1, 2>> >>),
    Data(CountSize + DataSize, 2, << <<1, 2, 50, 1, 2>> >>) }

InboundBatches == WellFormedBatches \cup MalformedBatches

(***************************************************************************)
(* State.                                                                  *)
(***************************************************************************)
VARIABLES
  plotdb,         \* _plotdb: the list of DronePlot
  skew,           \* _skew: node_id -> offset
  priorityOrder,  \* what _queue.getLeader() returns
  shutdownFlag,   \* _shutdown
  last_repl,      \* _last_repl
  now,            \* getAdjustedTime()
  queue,          \* inbound batches waiting in _queue
  delivered,      \* number of inbound batches delivered so far
  outbox,         \* batches handed to _queue.sendToAll
  pc,             \* position of replicate()
  cycles,         \* completed iterations of the while loop
  initdb,         \* the store replicate() started with
  merged,         \* batches merged by addReplDronePlots, in order
  loopStart,      \* store at the start of the current retry loop
  passes,         \* calls made by the current retry loop
  skewStart,      \* _skew at the start of the current checkSkew retry loop
  lastCorrect,    \* number of merged batches at the last correctSkew, -1 before
  peerdb,         \* _plotdb of a peer that receives what this node sends
  lastCall        \* the latest call of checkSkew or deduplicate: what it was
                  \* given and how it ended

vars == <<plotdb, skew, priorityOrder, shutdownFlag, last_repl, now, queue,
          delivered, outbox, pc, cycles, initdb, merged, loopStart, passes,
          skewStart, lastCorrect, peerdb, lastCall>>

\* no call of checkSkew or deduplicate made yet
NoCall == [op |-> "none", db |-> <<>>, sk |-> <<>>, st |-> "none"]

\* the record of one call
Call(op, db, sk, st) == [op |-> op, db |-> db, sk |-> sk, st |-> st]

Terminal == {"returned", "thrown", "hung", "crashed"}

\* state after the constructor and lines 78-83 of replicate()
Init ==
  /\ plotdb \in InitStores
  /\ skew = <<>>
  /\ priorityOrder \in PriorityOrders
  /\ shutdownFlag = FALSE
  /\ last_repl = 0
  /\ now = 0
  /\ queue = <<>>
  /\ delivered = 0
  /\ outbox = <<>>
  /\ pc = "top"
  /\ cycles = 0
  /\ initdb = plotdb
  /\ merged = <<>>
  /\ loopStart = <<>>
  /\ passes = 0
  /\ skewStart = <<>>
  /\ lastCorrect = -1
  /\ peerdb = <<>>
  /\ lastCall = NoCall

(***************************************************************************)
(* Actions.                                                                *)
(***************************************************************************)
\* shutdown(), lines 241-243, called from another thread
Shutdown ==
  /\ pc \notin Terminal
  /\ ~shutdownFlag
  /\ shutdownFlag' = TRUE
  /\ UNCHANGED <<plotdb, skew, priorityOrder, last_repl, now, queue, delivered,
                 outbox, pc, cycles, initdb, merged, loopStart, passes, peerdb>>
  /\ UNCHANGED <<skewStart, lastCorrect, lastCall>>

\* line 90: while (!_shutdown)
LoopTop ==
  /\ pc = "top"
  /\ IF shutdownFlag THEN pc' = "returned"
     ELSE cycles < MaxCycles /\ pc' = "handleQueue"
  /\ UNCHANGED <<plotdb, skew, priorityOrder, shutdownFlag, last_repl, now, queue,
                 delivered, outbox, cycles, initdb, merged, loopStart, passes, peerdb>>
  /\ UNCHANGED <<skewStart, lastCorrect, lastCall>>

\* line 93: handleQueue() services the connections once and puts at most
\* one batch a peer sent into the queue; the simulated clock may have
\* passed the replication period meanwhile
HandleQueue ==
  /\ pc = "handleQueue"
  /\ \E bs \in SeqsUpTo(InboundBatches, IF delivered < MaxInbound THEN 1 ELSE 0) :
       /\ queue' = queue \o bs
       /\ delivered' = delivered + Len(bs)
  /\ \E dt \in {0, secs_between_repl + 1} : now' = now + dt
  /\ pc' = "repl"
  /\ UNCHANGED <<plotdb, skew, priorityOrder, shutdownFlag, last_repl, outbox,
                 cycles, initdb, merged, loopStart, passes, peerdb>>
  /\ UNCHANGED <<skewStart, lastCorrect, lastCall>>

\* lines 97-101
ReplicateOut ==
  /\ pc = "repl"
  /\ IF now - last_repl > secs_between_repl
       THEN LET r == queueNewPlots(plotdb)
            IN /\ plotdb' = r.db
               /\ outbox' = outbox \o r.sent
               /\ last_repl' = now
       ELSE UNCHANGED <<plotdb, outbox, last_repl>>
  /\ pc' = "pop"
  /\ UNCHANGED <<skew, priorityOrder, shutdownFlag, now, queue, delivered,
                 cycles, initdb, merged, loopStart, passes, peerdb>>
  /\ UNCHANGED <<skewStart, lastCorrect, lastCall>>

\* lines 108-112: one turn of the drain loop, or its exit
Pop ==
  /\ pc = "pop"
  /\ IF queue = <<>>
       THEN /\ pc' = "sort"
            /\ UNCHANGED <<plotdb, queue, merged>>
       ELSE \E g \in EndReads :
              LET r == addReplDronePlots(plotdb, Head(queue), g)
              IN /\ queue' = Tail(queue)
                 /\ plotdb' = r.db
                 /\ merged' = IF r.st = "ok" THEN Append(merged, Head(queue)) ELSE merged
                 /\ pc' = CASE r.st = "ok" -> "pop"
                            [] r.st = "throw" -> "thrown"
                            [] OTHER -> "crashed"
  /\ UNCHANGED <<skew, priorityOrder, shutdownFlag, last_repl, now, delivered,
                 outbox, cycles, initdb, loopStart, passes, peerdb>>
  /\ UNCHANGED <<skewStart, lastCorrect, lastCall>>

\* line 115
SortByTime ==
  /\ pc = "sort"
  /\ plotdb' = sortByTime(plotdb)
  /\ loopStart' = plotdb'
  /\ skewStart' = skew
  /\ passes' = 0
  /\ pc' = "checkSkew"
  /\ UNCHANGED <<skew, priorityOrder, shutdownFlag, last_repl, now, queue,
                 delivered, outbox, cycles, initdb, merged, lastCorrect, peerdb,
                 lastCall>>

\* where a call's outcome leaves replicate()
After(st, again, next) ==
  CASE st = "true" -> next
    [] st = "false" -> again
    [] st = "hang" -> "hung"
    [] OTHER -> "crashed"

\* lines 116-117: one call of checkSkew by the retry loop
CheckSkew ==
  /\ pc = "checkSkew"
  /\ \E g \in EndReads :
       LET r == checkSkew(plotdb, skew, priorityOrder, g)
       IN /\ plotdb' = r.db
          /\ skew' = r.sk
          /\ pc' = After(r.st, "checkSkew", "correctSkew")
          /\ lastCall' = Call("checkSkew", plotdb, skew, r.st)
  /\ passes' = passes + 1
  /\ UNCHANGED <<priorityOrder, shutdownFlag, last_repl, now, queue, delivered,
                 outbox, cycles, initdb, merged, loopStart, peerdb>>
  /\ UNCHANGED <<skewStart, lastCorrect>>

\* line 118
CorrectSkew ==
  /\ pc = "correctSkew"
  /\ plotdb' = correctSkew(plotdb, skew)
  /\ loopStart' = plotdb'
  /\ lastCorrect' = Len(merged)
  /\ passes' = 0
  /\ pc' = "dedup"
  /\ UNCHANGED <<skew, priorityOrder, shutdownFlag, last_repl, now, queue,
                 delivered, outbox, cycles, initdb, merged, skewStart, peerdb,
                 lastCall>>

\* lines 119-120: one call of deduplicate by the retry loop
Deduplicate ==
  /\ pc = "dedup"
  /\ \E g \in EndReads :
       LET r == deduplicate(plotdb, priorityOrder, g)
       IN /\ plotdb' = r.db
          /\ pc' = After(r.st, "dedup", "sleep")
          /\ lastCall' = Call("deduplicate", plotdb, skew, r.st)
  /\ passes' = passes + 1
  /\ UNCHANGED <<skew, priorityOrder, shutdownFlag, last_repl, now, queue,
                 delivered, outbox, cycles, initdb, merged, loopStart, peerdb>>
  /\ UNCHANGED <<skewStart, lastCorrect>>

\* line 123: usleep, then back to the loop condition
Sleep ==
  /\ pc = "sleep"
  /\ pc' = "top"
  /\ cycles' = cycles + 1
  /\ UNCHANGED <<plotdb, skew, priorityOrder, shutdownFlag, last_repl, now, queue,
                 delivered, outbox, initdb, merged, loopStart, passes, peerdb>>
  /\ UNCHANGED <<skewStart, lastCorrect, lastCall>>

Next ==
  \/ Shutdown
  \/ LoopTop
  \/ HandleQueue
  \/ ReplicateOut
  \/ Pop
  \/ SortByTime
  \/ CheckSkew
  \/ CorrectSkew
  \/ Deduplicate
  \/ Sleep

Spec == Init /\ [][Next]_vars


(***************************************************************************)
(* The wire between two nodes: a sender's queueNewPlots and a peer's       *)
(* addReplDronePlots on what was sent.  The sender's store may carry any   *)
(* combination of the NEW and DUPE flags.                                  *)
(***************************************************************************)
MaxWire == 3        \* longest sender store

WirePlots ==
  { Plot(1, n, 50, 1, 2, f) : n \in {1, 2}, f \in SUBSET {DBFLAG_NEW, DBFLAG_DUPE} }

InitWire ==
  /\ plotdb \in SeqsUpTo(WirePlots, MaxWire)
  /\ skew = <<>>
  /\ priorityOrder = <<StationName(1), StationName(2)>>
  /\ shutdownFlag = FALSE
  /\ last_repl = 0
  /\ now = 0
  /\ queue = <<>>
  /\ delivered = 0
  /\ outbox = <<>>
  /\ pc = "wire_send"
  /\ cycles = 0
  /\ initdb = plotdb
  /\ merged = <<>>
  /\ loopStart = <<>>
  /\ passes = 0
  /\ skewStart = <<>>
  /\ lastCorrect = -1
  /\ peerdb = <<>>
  /\ lastCall = NoCall

\* lines 136-186 on the sender
WireQueueNewPlots ==
  /\ pc = "wire_send"
  /\ LET r == queueNewPlots(plotdb)
     IN /\ plotdb' = r.db
        /\ outbox' = outbox \o r.sent
  /\ pc' = "wire_sent"
  /\ UNCHANGED <<skew, priorityOrder, shutdownFlag, last_repl, now, queue, delivered,
                 cycles, initdb, merged, loopStart, passes, skewStart, lastCorrect,
                 peerdb, lastCall>>

\* lines 197-222 on the peer, given the batch the sender handed to sendToAll
WireReceive ==
  /\ pc = "wire_sent"
  /\ outbox # <<>>
  /\ \E g \in EndReads :
       LET r == addReplDronePlots(peerdb, outbox[1], g)
       IN /\ peerdb' = r.db
          /\ pc' = CASE r.st = "ok" -> "wire_ok"
                     [] r.st = "throw" -> "wire_thrown"
                     [] OTHER -> "wire_crashed"
  /\ UNCHANGED <<plotdb, skew, priorityOrder, shutdownFlag, last_repl, now, queue,
                 delivered, outbox, cycles, initdb, merged, loopStart, passes,
                 skewStart, lastCorrect, lastCall>>

NextWire == WireQueueNewPlots \/ WireReceive

SpecWire == InitWire /\ [][NextWire]_vars


(***************************************************************************)
(* One reconciliation (lines 115-120) of any store: sightings of two       *)
(* drones at two positions by all stations, with a skew table left by      *)
(* earlier iterations.                                                     *)
(***************************************************************************)
MaxPass == 2        \* longest store drawn from PassPlots

PassPlots ==
  { Plot(d, n, t, 1, lo, NoFlags) : d \in {1, 2}, n \in Nodes, t \in Times, lo \in {2, 3} }

PassStores == SeqsUpTo(PassPlots, MaxPass) \cup ScenarioStores

\* _skew as earlier iterations may have left it
PassSkews == { <<>>, (3 :> -10), (2 :> 10) }

InitPass ==
  /\ plotdb \in PassStores
  /\ skew \in PassSkews
  /\ priorityOrder \in PriorityOrders
  /\ shutdownFlag = FALSE
  /\ last_repl = 0
  /\ now = 0
  /\ queue = <<>>
  /\ delivered = 0
  /\ outbox = <<>>
  /\ pc = "sort"
  /\ cycles = 0
  /\ initdb = plotdb
  /\ merged = <<>>
  /\ loopStart = <<>>
  /\ passes = 0
  /\ skewStart = <<>>
  /\ lastCorrect = -1
  /\ peerdb = <<>>
  /\ lastCall = NoCall

NextPass == SortByTime \/ CheckSkew \/ CorrectSkew \/ Deduplicate

SpecPass == InitPass /\ [][NextPass]_vars


(***************************************************************************)
(* Properties.                                                             *)
(***************************************************************************)
InOrder(po, n) == \E k \in 1..Len(po) : po[k] = StationName(n)

Rank(po, n) == Min({k \in 1..Len(po) : po[k] = StationName(n)})

Fields(db) == [k \in 1..Len(db) |-> serialize(db[k])]

FieldSet(db) == {serialize(db[k]) : k \in 1..Len(db)}

\* C1: end-to-end scenario.  Starting from the store [(drone 1, node 1,
\* t=60, lat 1, lon 2)] with station 1 at the front of the priority order,
\* once the batch [(drone 1, node 2, t=50, lat 1, lon 2)] is merged the
\* first iteration's reconciliation completes (it neither hangs nor aborts)
\* and leaves exactly one record, of node 1 with timestamp 60.
C1Scenario ==
  /\ Fields(initdb) = << <<1, 1, 60, 1, 2>> >>
  /\ Head(priorityOrder) = StationName(1)
  /\ merged = << Framed(<< <<1, 2, 50, 1, 2>> >>) >>
  /\ cycles = 0

C1_EndToEnd ==
  C1Scenario =>
    /\ pc \notin {"hung", "crashed"}
    /\ pc = "sleep" =>
         /\ Len(plotdb) = 1
         /\ plotdb[1].node_id = 1
         /\ plotdb[1].timestamp = 60

\* a plot a of the leader station and a plot b of another station that
\* report the same sighting with different timestamps
LeaderPair(db, po, a, b) ==
  /\ Head(po) = StationName(db[a].node_id)
  /\ Head(po) # StationName(db[b].node_id)
  /\ db[a].drone_id = db[b].drone_id
  /\ db[a].latitude = db[b].latitude
  /\ db[a].longitude = db[b].longitude
  /\ db[a].timestamp # db[b].timestamp

\* C2: skew correctness.  When the checkSkew retry loop has returned, every
\* station B that had no skew entry at its start and had a plot co-located
\* with a leader plot at a different time has skew[B] = leader.timestamp -
\* follower.timestamp, and correctSkew then gives such a follower plot the
\* leader plot's timestamp.
C2_SkewCorrectness ==
  pc = "correctSkew" =>
    /\ \A a, b \in 1..Len(loopStart) :
         (LeaderPair(loopStart, priorityOrder, a, b)
            /\ loopStart[b].node_id \notin DOMAIN skewStart)
         => /\ loopStart[b].node_id \in DOMAIN skew
            /\ skew[loopStart[b].node_id]
                 = loopStart[a].timestamp - loopStart[b].timestamp
    /\ \A a, b \in 1..Len(plotdb) :
         (LeaderPair(plotdb, priorityOrder, a, b)
            /\ plotdb[b].node_id \notin DOMAIN skewStart)
         => correctSkew(plotdb, skew)[b].timestamp
              = correctSkew(plotdb, skew)[a].timestamp

\* C3: deduplication determinism.  When the deduplicate retry loop has
\* returned, of two plots that were identical except for node_id at its
\* start, both stations being in the priority order, the plot of the
\* earlier station is in the store and the plot of the later one is not.
C3_DedupDeterminism ==
  pc = "sleep" =>
    \A a, b \in 1..Len(loopStart) :
      (/\ loopStart[a].node_id # loopStart[b].node_id
       /\ [serialize(loopStart[a]) EXCEPT ![2] = 0]
            = [serialize(loopStart[b]) EXCEPT ![2] = 0]
       /\ InOrder(priorityOrder, loopStart[a].node_id)
       /\ InOrder(priorityOrder, loopStart[b].node_id)
       /\ Rank(priorityOrder, loopStart[a].node_id)
            < Rank(priorityOrder, loopStart[b].node_id))
      => /\ serialize(loopStart[a]) \in FieldSet(plotdb)
         /\ serialize(loopStart[b]) \notin FieldSet(plotdb)


\* lines 116-117: every way the checkSkew retry loop can end
RECURSIVE checkSkewLoop(_, _, _)
checkSkewLoop(db, sk, po) ==
  LET rs == {checkSkew(db, sk, po, g) : g \in EndReads}
  IN UNION { IF r.st = "false" THEN checkSkewLoop(r.db, r.sk, po) ELSE {r} : r \in rs }

\* lines 119-120: every way the deduplicate retry loop can end
RECURSIVE deduplicateLoop(_, _)
deduplicateLoop(db, po) ==
  LET rs == {deduplicate(db, po, g) : g \in EndReads}
  IN UNION { IF r.st = "false" THEN deduplicateLoop(r.db, po) ELSE {r} : r \in rs }

\* how a reconciliation ends: completed with a set of records, or not at all
Ending(st, db) ==
  IF st = "true" THEN [st |-> "done", recs |-> FieldSet(db)]
  ELSE [st |-> st, recs |-> {}]

\* lines 115-120: every way one reconciliation of a store can end
reconcile(db, sk, po) ==
  UNION { IF r.st # "true" THEN {Ending(r.st, r.db)}
          ELSE {Ending(d.st, d.db) : d \in deduplicateLoop(correctSkew(r.db, r.sk), po)}
          : r \in checkSkewLoop(sortByTime(db), sk, po) }

\* C4: idempotence under replay.  Whenever a well-formed batch is about to
\* be merged, merging it twice and reconciling ends in the same ways, with
\* the same records and timestamps, as merging it once and reconciling.
C4_ReplayIdempotent ==
  (pc = "pop" /\ queue # <<>> /\ Head(queue) \in WellFormedBatches) =>
    LET g == CHOOSE x \in EndReads : TRUE
        once == addReplDronePlots(plotdb, Head(queue), g).db
        twice == addReplDronePlots(once, Head(queue), g).db
    IN reconcile(twice, skew, priorityOrder) = reconcile(once, skew, priorityOrder)

\* C5: skew idempotence.  When correctSkew runs again and no batch has been
\* merged since it last ran, it changes no timestamp.
C5_SkewIdempotence ==
  (pc = "correctSkew" /\ lastCorrect = Len(merged)) =>
    \A k \in 1..Len(plotdb) :
      correctSkew(plotdb, skew)[k].timestamp = plotdb[k].timestamp

\* C6: dedup fixpoint.  When the deduplicate retry loop has returned, no two
\* distinct records have equal timestamp, latitude and longitude with at
\* least one of their stations in the priority order.
C6_DedupFixpoint ==
  pc = "sleep" =>
    \A a, b \in 1..Len(plotdb) :
      (/\ a # b
       /\ plotdb[a].timestamp = plotdb[b].timestamp
       /\ plotdb[a].latitude = plotdb[b].latitude
       /\ plotdb[a].longitude = plotdb[b].longitude)
      => ~(InOrder(priorityOrder, plotdb[a].node_id)
             \/ InOrder(priorityOrder, plotdb[b].node_id))

\* C7: bounded termination.  No call of checkSkew or deduplicate runs for
\* ever, each call that returns false has removed exactly one record, and
\* a retry loop over a store of N records makes at most N + 1 calls.
C7_BoundedTermination ==
  /\ pc # "hung"
  /\ pc \in {"checkSkew", "correctSkew", "dedup", "sleep"} =>
       /\ passes <= Len(loopStart) + 1
       /\ pc \in {"checkSkew", "dedup"} => Len(plotdb) = Len(loopStart) - passes


\* the plots of a store that have NEW and not DUPE, in store order
Selected(db) ==
  SelectSeq(db, LAMBDA p : DBFLAG_NEW \in p.flags /\ DBFLAG_DUPE \notin p.flags)

\* the five fields of each plot of a store, in store order
Wanted(db) ==
  [k \in 1..Len(db) |->
     <<db[k].drone_id, db[k].node_id, db[k].timestamp, db[k].latitude, db[k].longitude>>]

\* the records the sender's call serialized
Serialized == IF outbox = <<>> THEN <<>> ELSE outbox[1].recs

\* C8: outbound selection.  After one call of queueNewPlots the serialized
\* records are exactly the plots that had NEW and not DUPE when the call
\* started, in store order, and no plot of the store has NEW any more.
C8_OutboundSelection ==
  pc = "wire_sent" =>
    /\ Serialized = Wanted(Selected(initdb))
    /\ Len(plotdb) = Len(initdb)
    /\ \A k \in 1..Len(plotdb) : DBFLAG_NEW \notin plotdb[k].flags

\* a call over a store with a NEW and DUPE plot, a NEW plot without DUPE and
\* a plot without NEW has handed one batch to the transport
C8_Witness ==
  /\ pc = "wire_sent"
  /\ Len(outbox) = 1
  /\ \E a, b, c \in 1..Len(initdb) :
       /\ initdb[a].flags = {DBFLAG_NEW, DBFLAG_DUPE}
       /\ initdb[b].flags = {DBFLAG_NEW}
       /\ DBFLAG_NEW \notin initdb[c].flags
       /\ Len(Serialized) = 1

\* C9: batch round trip.  The count prefix of the batch queueNewPlots hands
\* to the transport equals the number of records after it, and the peer's
\* addReplDronePlots accepts the batch and appends exactly those records,
\* in order, with the same five fields.
C9_BatchRoundTrip ==
  /\ outbox # <<>> => outbox[1].count = Len(outbox[1].recs)
  /\ pc \notin {"wire_thrown", "wire_crashed"}
  /\ pc = "wire_ok" => Wanted(peerdb) = Wanted(Selected(initdb))

\* C10: count mismatch is rejected.  Every batch addReplDronePlots returned
\* from without an exception declared as many records as its byte length
\* implies, and a merge never reads past the end of a batch.
C10_CountMismatchRejected ==
  /\ \A k \in 1..Len(merged) :
       merged[k].count = (merged[k].size - CountSize) \div DataSize
  /\ pc # "crashed"


\* plots at the same latitude and longitude
SamePlace(p, q) == p.latitude = q.latitude /\ p.longitude = q.longitude

\* plot b is of a station with a skew entry, plot c of a station without
\* one, both at one position at different times, with no plot of the front
\* station at that position
TransitivePair(db, sk, po, b, c) ==
  /\ db[b].node_id \in DOMAIN sk
  /\ db[c].node_id \notin DOMAIN sk
  /\ SamePlace(db[b], db[c])
  /\ db[b].timestamp # db[c].timestamp
  /\ \A l \in 1..Len(db) :
       SamePlace(db[l], db[b]) => Head(po) # StationName(db[l].node_id)

\* C11: transitive resolution.  When the checkSkew retry loop has returned,
\* every station C that had no skew entry and had a plot co-located, at a
\* different time, with a plot of a station B that had one (no leader plot
\* being at that position) has skew[C] = skew[B] + B.timestamp -
\* C.timestamp, and both plots are in the store for correctSkew to bring to
\* the same timestamp.
C11_TransitiveResolution ==
  pc = "correctSkew" =>
    \A b, c \in 1..Len(loopStart) :
      TransitivePair(loopStart, skewStart, priorityOrder, b, c) =>
        /\ loopStart[c].node_id \in DOMAIN skew
        /\ skew[loopStart[c].node_id]
             = skewStart[loopStart[b].node_id]
                 + loopStart[b].timestamp - loopStart[c].timestamp
        /\ serialize(loopStart[b]) \in FieldSet(plotdb)
        /\ serialize(loopStart[c]) \in FieldSet(plotdb)


\* the latest call was of op, has returned, and nothing has touched the
\* store since
JustReturned(op) ==
  /\ lastCall.op = op
  /\ lastCall.st \in {"true", "false"}
  /\ pc \in (IF op = "checkSkew" THEN {"checkSkew", "correctSkew"} ELSE {"dedup", "sleep"})

\* the plots a call over db can read: its records and, for a store of odd
\* length, whatever lies behind end()
Readable(db) ==
  {db[k] : k \in 1..Len(db)} \cup (IF Len(db) % 2 = 1 THEN GarbagePlots ELSE {})

\* what a call treats as an exact duplicate of p
TreatedAsDuplicate(op, p, q) ==
  /\ p.timestamp = q.timestamp
  /\ op = "checkSkew" => SamePlace(p, q)

\* how many records of db carry the five fields f
CountOf(db, f) == Cardinality({k \in 1..Len(db) : serialize(db[k]) = f})

\* record k of db is ambiguous: neither its station nor the station of any
\* plot the call treats as its duplicate is in the priority order
Ambiguous(op, db, po, k) ==
  \A q \in Readable(db) :
    TreatedAsDuplicate(op, db[k], q) =>
      ~InOrder(po, db[k].node_id) /\ ~InOrder(po, q.node_id)

ErasedFrom(before, after, k) ==
  /\ Len(after) = Len(before) - 1
  /\ \A m \in 1..Len(after) :
       serialize(after[m]) = serialize(before[IF m < k THEN m ELSE m + 1])

\* C13: only proven-redundant records are destroyed.  A call of deduplicate
\* that returns false has removed one record, and has left in the store
\* another record with the same timestamp, latitude and longitude; a call
\* that returns true has removed nothing.
C13_OnlyRedundantRemoved ==
  JustReturned("deduplicate") =>
    IF lastCall.st = "true"
      THEN Fields(plotdb) = Fields(lastCall.db)
      ELSE \E k \in 1..Len(lastCall.db) :
             /\ ErasedFrom(lastCall.db, plotdb, k)
             /\ \E m \in 1..Len(plotdb) :
                  /\ plotdb[m].timestamp = lastCall.db[k].timestamp
                  /\ SamePlace(plotdb[m], lastCall.db[k])

\* C14: skew resolution does not remove records.  A call of checkSkew that
\* returns leaves the store with the records it had, in the same order.
C14_CheckSkewKeepsRecords ==
  JustReturned("checkSkew") => Fields(plotdb) = Fields(lastCall.db)


\* C15: skew entries are write-once.  No step removes a station from the
\* skew table or changes the value the table holds for it.
C15_SkewWriteOnce ==
  [][\A n \in DOMAIN skew : n \in DOMAIN skew' /\ skew'[n] = skew[n]]_vars

\* a call of checkSkew has returned after comparing two co-located plots of
\* different times whose stations both had skew entries already
C15_Witness ==
  /\ JustReturned("checkSkew")
  /\ Len(lastCall.db) >= 2
  /\ \E j \in 1..2 :
       /\ SamePlace(lastCall.db[2], lastCall.db[j])
       /\ lastCall.db[2].timestamp # lastCall.db[j].timestamp
       /\ lastCall.db[2].node_id # lastCall.db[j].node_id
       /\ lastCall.db[2].node_id \in DOMAIN lastCall.sk
       /\ lastCall.db[j].node_id \in DOMAIN lastCall.sk
       /\ lastCall.sk[lastCall.db[2].node_id] + lastCall.db[2].timestamp
            # lastCall.sk[lastCall.db[j].node_id] + lastCall.db[j].timestamp


\* a vector shorter than the count prefix, or whose length after the
\* prefix is not a whole number of records
BadSize(b) == b.size < CountSize \/ (b.size - CountSize) % DataSize # 0

\* C16: malformed batch sizes are fatal and leave the store untouched.  The
\* drain step that takes a batch of bad size from the queue appends
\* nothing and leaves replicate() by the exception, and replicate() takes
\* no step after that: no later merge, no reconciliation.
C16_BadSizeFatal ==
  [][/\ pc # "thrown"
     /\ (pc = "pop" /\ queue # <<>> /\ queue' # queue /\ BadSize(Head(queue)))
          => (pc' = "thrown" /\ plotdb' = plotdb /\ merged' = merged)]_vars

\* replicate() has been left by the exception with its store as it was
C16_Witness ==
  /\ pc = "thrown"
  /\ plotdb # <<>>
  /\ plotdb = initdb
  /\ merged = <<>>


\* C17: shutdown completes the cycle and then exits.  replicate() returns
\* only from the loop condition, between two iterations, and once
\* shutdown() has been called it is never inside a call of checkSkew or
\* deduplicate that runs for ever.
C17_ShutdownCompletesCycle ==
  [][/\ pc' = "returned" => pc = "top"
     /\ shutdownFlag' => pc' # "hung"]_vars

\* C18: LEADER marks are per-pass.  When a call of checkSkew has returned,
\* no plot of the store has the LEADER flag.
C18_LeaderMarksPerPass ==
  JustReturned("checkSkew") =>
    \A k \in 1..Len(plotdb) : ~isFlagSet(plotdb[k], DBFLAG_LEADER)

\* C19: skew is inferred only from the same sighting.  Every station a call
\* of checkSkew has added to the skew table has, in the store the call was
\* given, a plot that forms with another plot a pair of equal drone_id,
\* latitude and longitude and different timestamps.  (Stated for the calls
\* that compare records only: a store of even length.)
C19_SkewFromSameSighting ==
  (JustReturned("checkSkew") /\ Len(lastCall.db) % 2 = 0) =>
    \A n \in DOMAIN skew \ DOMAIN lastCall.sk :
      \E a, b \in 1..Len(lastCall.db) :
        /\ a # b
        /\ lastCall.db[a].node_id = n
        /\ lastCall.db[a].drone_id = lastCall.db[b].drone_id
        /\ SamePlace(lastCall.db[a], lastCall.db[b])
        /\ lastCall.db[a].timestamp # lastCall.db[b].timestamp

\* plot a is of the front station and shares its position, at a different
\* time, with another plot of the front station or with a plot of a station
\* that has a skew entry
LeaderCase(db, sk, po, a, b) ==
  /\ a # b
  /\ Head(po) = StationName(db[a].node_id)
  /\ SamePlace(db[a], db[b])
  /\ db[a].timestamp # db[b].timestamp
  /\ Head(po) = StationName(db[b].node_id) \/ db[b].node_id \in DOMAIN sk

\* C20: the leader is the reference clock.  Also after a call of checkSkew
\* over a store with two leader plots at one position at different times,
\* or a leader plot co-located with a plot of a resolved station, the
\* station at the front of the priority order has no skew entry other than
\* 0, so correctSkew leaves the timestamps of its plots alone.
C20_LeaderIsReference ==
  (/\ JustReturned("checkSkew")
   /\ \E a, b \in 1..Len(lastCall.db) :
        LeaderCase(lastCall.db, lastCall.sk, priorityOrder, a, b))
  => /\ \A n \in DOMAIN skew : Head(priorityOrder) = StationName(n) => skew[n] = 0
     /\ \A k \in 1..Len(plotdb) :
          Head(priorityOrder) = StationName(plotdb[k].node_id)
            => correctSkew(plotdb, skew)[k].timestamp = plotdb[k].timestamp

====
